---- MODULE Spec2Model ----
(***************************************************************************)
(* NodeBinaryProvider.resolveAndValidate (nodeBinaryProvider.ts): locate   *)
(* a Node.js binary, check the shape of its name, fall back to the real    *)
(* "node" on the PATH for shims, probe `--version`, gate on the major      *)
(* version and memoize the good results.                                   *)
(*                                                                         *)
(* Strings are sequences of one-character strings, so that basename, the   *)
(* two regular expressions, trim() and Number() are computed and not       *)
(* assumed.  `undefined` is the empty sequence, a number n is <<n>>.       *)
(***************************************************************************)
EXTENDS Integers, Sequences, FiniteSets, TLC

\* ------------------------------------------------------------------ bounds
NumCallers == 2        \* callers that hold a promise of the one resolver
MaxStack == 3          \* frames of resolveAndValidate the JS stack can hold
MaxInFlight == 2       \* calls that are pending at the same time
MaxMajor == 13         \* largest major version given to a NodeBinary directly

Callers == 1 .. NumCallers

\* ------------------------------------------------------------ string data
Digits == <<"0", "1", "2", "3", "4", "5", "6", "7", "8", "9">>

IsDigit(ch) == \E i \in 1 .. Len(Digits) : Digits[i] = ch

DigitVal(ch) == (CHOOSE i \in 1 .. Len(Digits) : Digits[i] = ch) - 1

Letters ==
  {"a", "b", "c", "d", "e", "f", "g", "h", "i", "j", "k", "l", "m",
   "n", "o", "p", "q", "r", "s", "t", "u", "v", "w", "x", "y", "z",
   "A", "B", "C", "D", "E", "F", "G", "H", "I", "J", "K", "L", "M",
   "N", "O", "P", "Q", "R", "S", "T", "U", "V", "W", "X", "Y", "Z"}

WhiteSpace == {" ", "\n", "\t", "\r"}

\* String.prototype.trim
RECURSIVE TrimLeft(_)
TrimLeft(s) ==
  IF s # <<>> /\ Head(s) \in WhiteSpace THEN TrimLeft(Tail(s)) ELSE s

RECURSIVE TrimRight(_)
TrimRight(s) ==
  IF s # <<>> /\ s[Len(s)] \in WhiteSpace
    THEN TrimRight(SubSeq(s, 1, Len(s) - 1))
    ELSE s

Trim(s) == TrimRight(TrimLeft(s))

\* Number("0123") for a string of decimal digits
RECURSIVE NumberOf(_)
NumberOf(ds) ==
  IF ds = <<>> THEN 0
  ELSE 10 * NumberOf(SubSeq(ds, 1, Len(ds) - 1)) + DigitVal(ds[Len(ds)])

\* the longest run of digits at the front of s
RECURSIVE DigitRun(_)
DigitRun(s) ==
  IF s # <<>> /\ IsDigit(Head(s)) THEN <<Head(s)>> \o DigitRun(Tail(s)) ELSE <<>>

\* ------------------------------------------------------------- path module
Separators(platform) == IF platform = "win32" THEN {"/", "\\"} ELSE {"/"}

\* win32: "C:" in front of the path
HasDrive(platform, p) ==
  platform = "win32" /\ Len(p) >= 2 /\ p[1] \in Letters /\ p[2] = ":"

isAbsolute(platform, p) ==
  /\ p # <<>>
  /\ \/ p[1] \in Separators(platform)
     \/ HasDrive(platform, p) /\ Len(p) >= 3 /\ p[3] \in Separators(platform)

basename(platform, p) ==
  LET first == IF HasDrive(platform, p) THEN 3 ELSE 1
      ends == {i \in first .. Len(p) : p[i] \notin Separators(platform)}
  IN  IF ends = {} THEN <<>>
      ELSE LET e == CHOOSE i \in ends : \A j \in ends : j <= i
               seps == {i \in first .. e : p[i] \in Separators(platform)}
               s == IF seps = {} THEN first
                    ELSE 1 + (CHOOSE i \in seps : \A j \in seps : j <= i)
           IN  SubSeq(p, s, e)

\* ----------------------------------------------------------------- inputs
node == <<"n", "o", "d", "e">>
npm == <<"n", "p", "m">>
binNode == <<"/", "b", "/", "n", "o", "d", "e">>
binNodeCmd == <<"/", "b", "/", "n", "o", "d", "e", ".", "c", "m", "d">>
binNpm == <<"/", "b", "/", "n", "p", "m">>
driveNode64Exe ==
  <<"C", ":", "\\", "n", "o", "d", "e", "6", "4", ".", "e", "x", "e">>

\* what a caller passes as `executable`
Executables == {node, npm, binNode, driveNode64Exe}

\* what a caller passes as `explicitVersion`: nothing, or a major version
ExplicitVersions == {<<>>, <<0>>, <<6>>}

\* the environments a caller passes as `env`, by name
Envs == {"empty", "node", "shimOnly", "nodeCmd"}

\* what the binary prints for --version
v7_10_0 == <<"v", "7", ".", "1", "0", ".", "0", "\n">>
v8_0_0 == <<"v", "8", ".", "0", ".", "0", "\n">>
v8 == <<"v", "8">>
v14_2_0 == <<"v", "1", "4", ".", "2", ".", "0">>
v5_0_0 == <<"v", "5", ".", "0", ".", "0">>
sp_v9_1 == <<" ", "v", "9", ".", "1">>

VersionTexts == {v7_10_0, v8_0_0, v8, v14_2_0, v5_0_0, sp_v9_1}

\* ------------------------------------------------------------ collaborators
\* findInPath(program, env): the first match on the PATH of env, with the
\* platform's executable extension, or undefined
findInPath(program, env) ==
  CASE env = "node" /\ program = node -> binNode
    [] env = "node" /\ program = npm -> binNpm
    [] env = "shimOnly" /\ program = npm -> binNpm
    [] env = "nodeCmd" /\ program = node -> binNodeCmd
    [] env = "nodeCmd" /\ program = npm -> binNpm
    [] OTHER -> <<>>

\* spawnAsync(binary, ['--version']): resolves with the captured stdout, or
\* rejects when the process cannot be spawned or exits with a failure
SpawnOutcomes ==
  {[status |-> "ok", stdout |-> t] : t \in VersionTexts}
    \cup {[status |-> "ENOENT", stdout |-> <<>>],
          [status |-> "exit1", stdout |-> v14_2_0]}

\* --------------------------------------------------------- results, errors
NoResult == [kind |-> "none"]

\* new NodeBinary(path, majorVersion)
NodeBinary(path, majorVersion) ==
  [kind |-> "ok", path |-> path, majorVersion |-> majorVersion]

\* new ProtocolError(cannotFindNodeBinary(path))
cannotFindNodeBinary(path) ==
  [kind |-> "err", id |-> "CannotFindNodeBinary", path |-> path, text |-> <<>>]

\* new ProtocolError(nodeBinaryOutOfDate(readVersion, attemptedPath))
nodeBinaryOutOfDate(readVersion, attemptedPath) ==
  [kind |-> "err", id |-> "NodeBinaryOutOfDate", path |-> attemptedPath,
   text |-> readVersion]

\* errors of the runtime, which are no ProtocolError and have no `cause`
RangeError ==
  [kind |-> "err", id |-> "RangeError", path |-> <<>>, text |-> <<>>]

TypeError ==
  [kind |-> "err", id |-> "TypeError", path |-> <<>>, text |-> <<>>]

IsProtocolError(e) == e.id \in {"CannotFindNodeBinary", "NodeBinaryOutOfDate"}

\* --------------------------------------------------- resolveAndValidate
\* a lookup that falls back on the name as it was given
LocateOrSelf(platform, executable, env) ==
  IF (executable # <<>> /\ isAbsolute(platform, executable))
      \/ findInPath(executable, env) = <<>>
    THEN executable
    ELSE findInPath(executable, env)

\* const location = executable && isAbsolute(executable) ? executable : findInPath(...)
Locate(platform, executable, env) ==
  IF executable # <<>> /\ isAbsolute(platform, executable)
    THEN executable
    ELSE findInPath(executable, env)

\* if (explicitVersion): undefined and 0 are falsy
ExplicitGiven(explicitVersion) ==
  explicitVersion # <<>> /\ explicitVersion[1] # 0

\* the pattern widened by a second extension: /^node(64)?(\.exe|\.cmd)?$/
NodeNamesCmd ==
  {node, node \o <<"6", "4">>, node \o <<".", "e", "x", "e">>,
   node \o <<"6", "4", ".", "e", "x", "e">>, node \o <<".", "c", "m", "d">>,
   node \o <<"6", "4", ".", "c", "m", "d">>}

\* /^node(64)?(\.exe)?$/
NodeNames ==
  {node, node \o <<"6", "4">>, node \o <<".", "e", "x", "e">>,
   node \o <<"6", "4", ".", "e", "x", "e">>}

\* the pattern without its end anchor: /^node(64)?(\.exe)?/
LooksLikeNodeUnanchored(platform, location) ==
  LET b == basename(platform, location)
  IN  Len(b) >= Len(node) /\ SubSeq(b, 1, Len(node)) = node

LooksLikeNode(platform, location) == basename(platform, location) \in NodeNames

\* the real binary handed back in place of the shim
ShimBinaryReal(location, realBinary) == realBinary

\* return new NodeBinary(location, realBinary.majorVersion)
ShimBinary(location, realBinary) == NodeBinary(location, realBinary.majorVersion)

\* a catch block that takes every failure of the lookup as "not found"
CatchRecursiveSwallow(e, location) ==
  IF ~IsProtocolError(e) THEN TypeError ELSE NodeBinary(location, <<>>)

\* catch (e) { if (e.cause.id === NodeBinaryOutOfDate) throw e; return ... }
CatchRecursive(e, location) ==
  IF ~IsProtocolError(e) THEN TypeError
  ELSE IF e.id = "NodeBinaryOutOfDate" THEN e
  ELSE NodeBinary(location, <<>>)

\* a lookup that does not look at the key
knownGoodAny(cache, location) ==
  IF DOMAIN cache # {}
    THEN cache[CHOOSE p \in DOMAIN cache : TRUE]
    ELSE NoResult

\* the lookup that never finds an entry
knownGoodNever(cache, location) == NoResult

\* this.knownGoodMappings.get(location)
knownGood(cache, location) ==
  IF location \in DOMAIN cache THEN cache[location] ELSE NoResult

\* /^v([0-9]+)\./.exec(version): <<>> for null, else <<Number(match[1])>>
ParseMajor(version) ==
  IF version = <<>> \/ Head(version) # "v" THEN <<>>
  ELSE LET ds == DigitRun(Tail(version))
           rest == SubSeq(version, 2 + Len(ds), Len(version))
       IN  IF ds # <<>> /\ rest # <<>> /\ Head(rest) = "."
             THEN <<NumberOf(ds)>>
             ELSE <<>>

MinMajorVersion == 8

\* the gate left out: every text that states a major version is accepted
ValidateNoGate(version, location) ==
  LET majorVersion == ParseMajor(version)
  IN  IF majorVersion = <<>>
        THEN nodeBinaryOutOfDate(Trim(version), location)
        ELSE NodeBinary(location, majorVersion)

\* a gate that accepts a text it cannot read, with the version unknown
ValidateLenient(version, location) ==
  LET majorVersion == ParseMajor(version)
  IN  IF majorVersion = <<>> THEN NodeBinary(location, <<>>)
      ELSE IF majorVersion[1] < MinMajorVersion
        THEN nodeBinaryOutOfDate(Trim(version), location)
      ELSE NodeBinary(location, majorVersion)

\* the gate with the comparison off by one
ValidateAboveMin(version, location) ==
  LET majorVersion == ParseMajor(version)
  IN  IF majorVersion = <<>> \/ majorVersion[1] <= MinMajorVersion
        THEN nodeBinaryOutOfDate(Trim(version), location)
        ELSE NodeBinary(location, majorVersion)

\* the gate on the version text, and the entry built when it passes
Validate(version, location) ==
  LET majorVersion == ParseMajor(version)
  IN  IF majorVersion = <<>> \/ majorVersion[1] < MinMajorVersion
        THEN nodeBinaryOutOfDate(Trim(version), location)
        ELSE NodeBinary(location, majorVersion)

\* the store moved in front of the gate: whatever was probed is remembered
MemoizeAlways(cache, location, res) ==
  [p \in DOMAIN cache \cup {location} |->
     IF p # location THEN cache[p]
     ELSE IF res.kind = "ok" THEN res
     ELSE NodeBinary(location, <<>>)]

\* a store that leaves an entry that is already there: has() before set()
MemoizeFirst(cache, location, res) ==
  IF res.kind = "ok" /\ location \notin DOMAIN cache
    THEN [p \in DOMAIN cache \cup {location} |->
            IF p = location THEN res ELSE cache[p]]
    ELSE cache

\* this.knownGoodMappings.set(location, entry), on the success path only
Memoize(cache, location, res) ==
  IF res.kind = "ok"
    THEN [p \in DOMAIN cache \cup {location} |->
            IF p = location THEN res ELSE cache[p]]
    ELSE cache

\* a probe that reports a failed child process as empty output
getVersionTextOrEmpty(outcome, binary) ==
  IF outcome.status = "ok"
    THEN [kind |-> "text", stdout |-> outcome.stdout]
    ELSE [kind |-> "text", stdout |-> <<>>]

\* getVersionText(binary)
getVersionText(outcome, binary) ==
  IF outcome.status = "ok"
    THEN [kind |-> "text", stdout |-> outcome.stdout]
    ELSE cannotFindNodeBinary(binary)

\* -------------------------------------------------------------------- state
VARIABLES
  platform,   \* process.platform, which decides what the path module does
  cache,      \* knownGoodMappings: location -> NodeBinary
  stack,      \* per caller, the frames of resolveAndValidate, outermost first
  prior,      \* per caller, prevOk as it was when the caller's call began
  prevOk,     \* history: result of the last finished call, when it succeeded
              \* without an explicit version; NoResult otherwise
  good,       \* history: locations whose validation has succeeded
  failed,     \* history: locations whose validation has failed
  snapshot,   \* history: per caller, the cache as it was when the call began
  binary,     \* a NodeBinary in the hands of a caller
  canUse      \* what the caller last read from binary.canUseSpacesInRequirePath,
              \* <<>> when it has not read it since binary changed

capVars == <<binary, canUse>>

vars == <<platform, cache, stack, prior, prevOk, good, failed, snapshot,
          binary, canUse>>

\* no child process has settled
NoOutcome == [status |-> "none", stdout |-> <<>>]

\* a frame holds the arguments and the locals of one invocation: location,
\* the settled child process (its stdout is `version`), the settled recursive
\* call (`realBinary` or `e`), the number of child processes spawned on behalf
\* of the invocation, and how the invocation settled
NewFrame(executable, env, explicitVersion) ==
  [executable |-> executable, env |-> env, explicitVersion |-> explicitVersion,
   location |-> <<>>, pc |-> "start", probes |-> 0, outcome |-> NoOutcome,
   inner |-> NoResult, result |-> NoResult]

Top(c) == stack[c][Len(stack[c])]

SetTop(c, f) == [stack EXCEPT ![c][Len(stack[c])] = f]

Done(f, res) == [f EXCEPT !.pc = "done", !.result = res]

Init ==
  /\ platform \in {"posix", "win32"}
  /\ cache = <<>>
  /\ stack = [c \in Callers |-> <<>>]
  /\ prior = [c \in Callers |-> NoResult]
  /\ prevOk = NoResult
  /\ good = {}
  /\ failed = {}
  /\ snapshot = [c \in Callers |-> <<>>]
  /\ binary = NoResult
  /\ canUse = <<>>

\* a caller invokes resolveAndValidate(env, executable, explicitVersion);
\* calls on the resolver are made one after the other
Call(c, env, executable, explicitVersion) ==
  /\ \A d \in Callers : stack[d] = <<>>
  /\ stack' = [stack EXCEPT ![c] = <<NewFrame(executable, env, explicitVersion)>>]
  /\ prior' = [prior EXCEPT ![c] = prevOk]
  /\ snapshot' = [snapshot EXCEPT ![c] = cache]
  /\ UNCHANGED <<platform, cache, prevOk, good, failed, capVars>>

\* the synchronous part of an invocation, up to its first await
Enter(c) ==
  /\ stack[c] # <<>>
  /\ Top(c).pc = "start"
  /\ LET f == Top(c)
         location == Locate(platform, f.executable, f.env)
         g == [f EXCEPT !.location = location]
     IN  stack' =
           IF location = <<>>
             THEN SetTop(c, Done(g, cannotFindNodeBinary(f.executable)))
           ELSE IF ExplicitGiven(f.explicitVersion)
             THEN SetTop(c, Done(g, NodeBinary(location, f.explicitVersion)))
           ELSE IF ~LooksLikeNode(platform, location)
             THEN IF Len(stack[c]) >= MaxStack
                    \* the call does not fit on the stack: a RangeError
                    \* is thrown inside the try block
                    THEN SetTop(c, Done([g EXCEPT !.inner = RangeError],
                                        CatchRecursive(RangeError, location)))
                    ELSE [stack EXCEPT ![c] =
                            Append(SubSeq(stack[c], 1, Len(stack[c]) - 1),
                                   [g EXCEPT !.pc = "awaitInner"])
                              \o <<NewFrame(node, f.env, <<>>)>>]
           ELSE IF knownGood(cache, location) # NoResult
             THEN SetTop(c, Done(g, knownGood(cache, location)))
           ELSE SetTop(c, [g EXCEPT !.pc = "probing", !.probes = 1])
  /\ UNCHANGED <<platform, cache, prior, prevOk, good, failed, snapshot, capVars>>

\* the child process of getVersionText settles and the invocation runs on to
\* its end
ProbeDone(c, outcome) ==
  /\ stack[c] # <<>>
  /\ Top(c).pc = "probing"
  /\ LET f == Top(c)
         probe == getVersionText(outcome, f.location)
         res == IF probe.kind = "text"
                  THEN Validate(probe.stdout, f.location)
                  ELSE probe
         g == [f EXCEPT !.outcome = outcome]
     IN  /\ stack' = SetTop(c, Done(g, res))
         /\ cache' = Memoize(cache, f.location, res)
         /\ good' = IF res.kind = "ok" THEN good \cup {f.location} ELSE good
         /\ failed' = IF res.kind = "ok" THEN failed ELSE failed \cup {f.location}
  /\ UNCHANGED <<platform, prior, prevOk, snapshot, capVars>>

\* the recursive invocation has settled: the outer one resumes after its await
Resume(c) ==
  /\ Len(stack[c]) >= 2
  /\ Top(c).pc = "done"
  /\ LET in == Top(c)
         out == stack[c][Len(stack[c]) - 1]
         res == IF in.result.kind = "ok"
                  THEN ShimBinary(out.location, in.result)
                  ELSE CatchRecursive(in.result, out.location)
     IN  stack' = [stack EXCEPT ![c] =
                     Append(SubSeq(stack[c], 1, Len(stack[c]) - 2),
                            Done([out EXCEPT !.inner = in.result,
                                             !.probes = out.probes + in.probes],
                                 res))]
  /\ UNCHANGED <<platform, cache, prior, prevOk, good, failed, snapshot, capVars>>

\* the caller's promise settles
Return(c) ==
  /\ Len(stack[c]) = 1
  /\ Top(c).pc = "done"
  /\ stack' = [stack EXCEPT ![c] = <<>>]
  /\ prevOk' = IF Top(c).result.kind = "ok" /\ Top(c).explicitVersion = <<>>
                 THEN Top(c).result
                 ELSE NoResult
  /\ snapshot' = [snapshot EXCEPT ![c] = <<>>]
  /\ UNCHANGED <<platform, cache, prior, good, failed, capVars>>

Next ==
  \/ \E c \in Callers, env \in Envs, executable \in Executables,
        explicitVersion \in ExplicitVersions :
       Call(c, env, executable, explicitVersion)
  \/ \E c \in Callers : Enter(c)
  \/ \E c \in Callers, outcome \in SpawnOutcomes : ProbeDone(c, outcome)
  \/ \E c \in Callers : Resume(c)
  \/ \E c \in Callers : Return(c)

Spec == Init /\ [][Next]_vars

\* callers that do not wait for one another: a call may begin while others
\* are pending
CallPending(c, env, executable, explicitVersion) ==
  /\ stack[c] = <<>>
  /\ Cardinality({d \in Callers : stack[d] # <<>>}) < MaxInFlight
  /\ stack' = [stack EXCEPT ![c] = <<NewFrame(executable, env, explicitVersion)>>]
  /\ prior' = [prior EXCEPT ![c] = prevOk]
  /\ snapshot' = [snapshot EXCEPT ![c] = cache]
  /\ UNCHANGED <<platform, cache, prevOk, good, failed, capVars>>

\* the arguments of the calls that overlap: one PATH, node by its path and
\* a shim by its name
PendingEnvs == {"node"}

PendingExecutables == {binNode, npm}

PendingVersions == {<<>>, <<6>>}

NextPending ==
  \/ \E c \in Callers, env \in PendingEnvs, executable \in PendingExecutables,
        explicitVersion \in PendingVersions :
       CallPending(c, env, executable, explicitVersion)
  \/ \E c \in Callers : Enter(c)
  \/ \E c \in Callers, outcome \in SpawnOutcomes : ProbeDone(c, outcome)
  \/ \E c \in Callers : Resume(c)
  \/ \E c \in Callers : Return(c)

SpecPending == Init /\ [][NextPending]_vars

\* ------------------------------------------------------------- NodeBinary
\* get canUseSpacesInRequirePath(): a majorVersion of undefined or 0 is falsy
canUseSpacesInRequirePath(b) ==
  IF b.majorVersion # <<>> /\ b.majorVersion[1] # 0
    THEN b.majorVersion[1] >= 12
    ELSE TRUE

\* the values of the field majorVersion: number | undefined
MajorVersions == {<<>>} \cup {<<n>> : n \in 0 .. MaxMajor}

BinaryPaths == {binNode, binNodeCmd, binNpm, driveNode64Exe}

\* new NodeBinary(path, majorVersion)
Construct(path, majorVersion) ==
  /\ binary' = NodeBinary(path, majorVersion)
  /\ canUse' = <<>>
  /\ UNCHANGED <<platform, cache, stack, prior, prevOk, good, failed, snapshot>>

\* binary.majorVersion = majorVersion: the field is public and not readonly
SetMajorVersion(majorVersion) ==
  /\ binary.kind = "ok"
  /\ binary' = [binary EXCEPT !.majorVersion = majorVersion]
  /\ canUse' = <<>>
  /\ UNCHANGED <<platform, cache, stack, prior, prevOk, good, failed, snapshot>>

\* binary.canUseSpacesInRequirePath
ReadCanUse ==
  /\ binary.kind = "ok"
  /\ canUse' = <<canUseSpacesInRequirePath(binary)>>
  /\ UNCHANGED <<platform, cache, stack, prior, prevOk, good, failed, snapshot,
                 binary>>

NextBinary ==
  \/ \E path \in BinaryPaths, majorVersion \in MajorVersions :
       Construct(path, majorVersion)
  \/ \E majorVersion \in MajorVersions : SetMajorVersion(majorVersion)
  \/ ReadCanUse

SpecBinary == Init /\ [][NextBinary]_vars

\* ------------------------------------------------------------- properties
\* the frames of all callers
FrameIds == {ci \in Callers \X (1 .. MaxStack) : ci[2] <= Len(stack[ci[1]])}

Frame(ci) == stack[ci[1]][ci[2]]

\* the frame went the way of direct validation (steps 4 to 7)
Direct(f) == f.location # <<>> /\ LooksLikeNode(platform, f.location)

\* the frame went the way of the shape-mismatch fallback (step 3)
Shim(f) == f.location # <<>> /\ ~LooksLikeNode(platform, f.location)

\* version texts of a supported node, with the major version they state
SupportedTexts == {<<v8_0_0, 8>>, <<v14_2_0, 14>>}

FailedOnly == failed \ good

\* C1: negative results are never memoized.  No location whose validations
\* have all failed is a key of the cache; a call for such a location runs the
\* probe again; and when that probe prints the version of a supported node the
\* call succeeds with that major version.
C1_Step ==
  /\ (failed' \ good') \cap DOMAIN cache' = {}
  /\ \A c \in Callers :
       (stack[c] # <<>> /\ stack'[c] # stack[c]) =>
         LET f == Top(c)
             P == Locate(platform, f.executable, f.env)
         IN  /\ (f.pc = "start" /\ f.explicitVersion = <<>> /\ P \in FailedOnly)
                  => /\ Len(stack'[c]) = Len(stack[c])
                     /\ Top(c)'.pc = "probing"
                     /\ Top(c)'.location = P
                     /\ Top(c)'.probes = 1
             /\ (f.pc = "probing" /\ f.location \in FailedOnly)
                  => \A tm \in SupportedTexts :
                       Top(c)'.outcome = [status |-> "ok", stdout |-> tm[1]]
                         => Top(c)'.result =
                              [kind |-> "ok", path |-> f.location,
                               majorVersion |-> <<tm[2]>>]

C1_NoNegativeCaching == [][C1_Step]_vars

\* a location failed validation, was probed again and is now accepted
C1_Witness ==
  \E ci \in FrameIds :
    /\ Frame(ci).pc = "done"
    /\ Frame(ci).location \in failed
    /\ Frame(ci).probes = 1
    /\ Frame(ci).outcome.status = "ok"
    /\ Frame(ci).result.kind = "ok"
    /\ Frame(ci).location \in DOMAIN cache

\* the caller's call has settled with a descriptor for the location that the
\* call finished just before it began had succeeded on, neither call with an
\* explicit version
Repeated(c) ==
  /\ Len(stack[c]) = 1
  /\ Top(c).pc = "done"
  /\ Top(c).result.kind = "ok"
  /\ Top(c).explicitVersion = <<>>
  /\ prior[c].kind = "ok"
  /\ prior[c].path = Top(c).location

\* C2 as stated: two consecutive successful calls that resolve to the same
\* absolute path return the same path and majorVersion, and the second one
\* spawns no version probe.
C2_Original ==
  \A c \in Callers :
    Repeated(c) => (Top(c).result = prior[c] /\ Top(c).probes = 0)

\* C2, amended: the same, for a path whose basename has the canonical shape.
C2_IdempotentThroughCache ==
  \A c \in Callers :
    (Repeated(c) /\ LooksLikeNode(platform, Top(c).location))
      => (Top(c).result = prior[c] /\ Top(c).probes = 0)

C2_Witness ==
  \E c \in Callers :
    /\ Repeated(c)
    /\ LooksLikeNode(platform, Top(c).location)
    /\ Top(c).result.majorVersion = <<14>>

\* C3 as stated: whenever explicitVersion is supplied (any non-negative
\* integer) and the executable is located, the call returns exactly
\* { path: location, majorVersion: explicitVersion }, without a version probe
\* and without a recursive lookup.
C3_ExplicitBypass ==
  \A ci \in FrameIds :
    LET f == Frame(ci)
    IN  (f.pc \notin {"start"} /\ f.location # <<>> /\ f.explicitVersion # <<>>)
          => /\ f.pc = "done"
             /\ f.result = [kind |-> "ok", path |-> f.location,
                            majorVersion |-> f.explicitVersion]
             /\ f.probes = 0
             /\ f.inner = NoResult
             /\ Len(stack[ci[1]]) = 1

\* C4: when the located path is a shim and the recursive lookup of "node"
\* fails with BinaryOutOfDate, the outer call fails with that very error,
\* which carries the text and the path of the real node, not of the shim.
C4_ShimHardFailure ==
  \A ci \in FrameIds :
    LET f == Frame(ci)
    IN  (f.pc = "done" /\ Shim(f) /\ f.inner.kind = "err"
           /\ f.inner.id = "NodeBinaryOutOfDate")
          => /\ f.result = f.inner
             /\ f.result.kind = "err"
             /\ f.result.path # f.location
             /\ LooksLikeNode(platform, f.result.path)

C4_Witness ==
  \E ci \in FrameIds :
    /\ Frame(ci).pc = "done"
    /\ Shim(Frame(ci))
    /\ Frame(ci).inner = [kind |-> "err", id |-> "NodeBinaryOutOfDate",
                          path |-> binNode,
                          text |-> <<"v", "5", ".", "0", ".", "0">>]

\* C5 as stated: when the located path is a shim and the recursive lookup
\* fails for any reason other than BinaryOutOfDate, the outer call returns
\* { path: location, majorVersion: undefined }.
C5_ShimOptimistic ==
  \A ci \in FrameIds :
    LET f == Frame(ci)
    IN  (f.pc = "done" /\ Shim(f) /\ f.inner.kind = "err"
           /\ f.inner.id # "NodeBinaryOutOfDate")
          => f.result = [kind |-> "ok", path |-> f.location,
                         majorVersion |-> <<>>]

\* C6: when the located path is a shim and the recursive lookup succeeds with
\* major version M, the outer call returns the shim's path with M, and not
\* the path of the real node.
C6_ShimSuccess ==
  \A ci \in FrameIds :
    LET f == Frame(ci)
    IN  (f.pc = "done" /\ Shim(f) /\ f.inner.kind = "ok")
          => /\ f.result = [kind |-> "ok", path |-> f.location,
                            majorVersion |-> f.inner.majorVersion]
             /\ f.result.path # f.inner.path

C6_Witness ==
  \E ci \in FrameIds :
    /\ Frame(ci).pc = "done"
    /\ Frame(ci).location = binNpm
    /\ Frame(ci).inner = [kind |-> "ok", path |-> binNode, majorVersion |-> <<14>>]

\* C7 as stated: whatever the path search returns for "node", a call makes at
\* most one recursive invocation of itself.
C7_BoundedRecursion == \A c \in Callers : Len(stack[c]) <= 2

\* the major versions the gate is asked about
MajorRange == 0 .. 99

\* t is 'v', then digits that form N, then '.', then anything
StatesMajor(t, N) ==
  \E k \in 1 .. Len(t) - 2 :
    /\ t[1] = "v"
    /\ \A i \in 2 .. k + 1 : IsDigit(t[i])
    /\ t[k + 2] = "."
    /\ N = NumberOf(SubSeq(t, 2, k + 1))

OutOfDate(text, location) ==
  [kind |-> "err", id |-> "NodeBinaryOutOfDate", path |-> location, text |-> text]

\* C8: a probed location succeeds with majorVersion N exactly when the
\* untrimmed stdout is 'v', digits forming N, '.', and N >= 8; otherwise it
\* fails with BinaryOutOfDate carrying the trimmed text and the location.
\* "v7.10.0" fails, "v8.0.0" gives 8, "v8" fails.
C8_VersionGate ==
  \A ci \in FrameIds :
    LET f == Frame(ci)
        t == f.outcome.stdout
    IN  (f.pc = "done" /\ Direct(f) /\ f.outcome.status = "ok")
          => /\ \A N \in MajorRange :
                  (StatesMajor(t, N) /\ N >= 8)
                    <=> f.result = [kind |-> "ok", path |-> f.location,
                                    majorVersion |-> <<N>>]
             /\ f.result.kind # "ok" => f.result = OutOfDate(Trim(t), f.location)
             /\ t = v7_10_0 =>
                  f.result = OutOfDate(<<"v", "7", ".", "1", "0", ".", "0">>, f.location)
             /\ t = v8_0_0 => (f.result.kind = "ok" /\ f.result.majorVersion = <<8>>)
             /\ t = v8 => f.result = OutOfDate(<<"v", "8">>, f.location)
             /\ t = sp_v9_1 => f.result = OutOfDate(<<"v", "9", ".", "1">>, f.location)

C8_Witness ==
  \E ci \in FrameIds :
    /\ Frame(ci).pc = "done"
    /\ Direct(Frame(ci))
    /\ Frame(ci).outcome = [status |-> "ok", stdout |-> v8_0_0]
    /\ Frame(ci).result.kind = "ok"

\* C9: when the name is not absolute and the path search finds nothing, the
\* call fails with BinaryNotFound carrying the requested name, whatever
\* explicitVersion and the cache are, without a probe, a recursive lookup or
\* a change of the cache.
C9_Step ==
  \A c \in Callers :
    (stack[c] # <<>> /\ stack'[c] # stack[c] /\ Top(c).pc = "start"
       /\ ~isAbsolute(platform, Top(c).executable)
       /\ findInPath(Top(c).executable, Top(c).env) = <<>>)
      => /\ Len(stack'[c]) = Len(stack[c])
         /\ Top(c)'.pc = "done"
         /\ Top(c)'.result = [kind |-> "err", id |-> "CannotFindNodeBinary",
                              path |-> Top(c).executable, text |-> <<>>]
         /\ Top(c)'.probes = 0
         /\ Top(c)'.inner = NoResult
         /\ cache' = cache

C9_LocateFailure == [][C9_Step]_vars

C9_Witness ==
  \E c \in Callers :
    /\ Len(stack[c]) = 1
    /\ Top(c).pc = "done"
    /\ Top(c).executable = npm
    /\ Top(c).explicitVersion = <<6>>
    /\ Top(c).result.kind = "err"
    /\ Top(c).result.id = "CannotFindNodeBinary"
    /\ cache # <<>>

\* C10: when the child process of the version probe fails in any way, the
\* call fails with BinaryNotFound carrying the location, never with
\* BinaryOutOfDate, and the cache is left as it was.
C10_Step ==
  \A c \in Callers :
    (stack[c] # <<>> /\ stack'[c] # stack[c] /\ Top(c).pc = "probing"
       /\ Top(c)'.outcome.status # "ok")
      => /\ Top(c)'.pc = "done"
         /\ Top(c)'.result = [kind |-> "err", id |-> "CannotFindNodeBinary",
                              path |-> Top(c).location, text |-> <<>>]
         /\ cache' = cache

C10_ProbeFailure == [][C10_Step]_vars

C10_Witness ==
  \E ci \in FrameIds :
    /\ Frame(ci).pc = "done"
    /\ Frame(ci).executable = node
    /\ Frame(ci).outcome.status = "exit1"
    /\ Frame(ci).result.kind = "err"
    /\ Frame(ci).result.path = binNode
    /\ binNode \notin DOMAIN cache

\* the file names the spec calls canonical: node, node64, node.exe, node64.exe
CanonicalNames ==
  {<<"n", "o", "d", "e">>,
   <<"n", "o", "d", "e", "6", "4">>,
   <<"n", "o", "d", "e", ".", "e", "x", "e">>,
   <<"n", "o", "d", "e", "6", "4", ".", "e", "x", "e">>}

\* C11 as stated: every call for a requested name that does not match the
\* canonical shape has looked up "node" a second time when it completes.
C11_Original ==
  \A c \in Callers :
    (stack[c] # <<>> /\ stack[c][1].pc = "done"
       /\ stack[c][1].executable \notin CanonicalNames)
      => stack[c][1].inner # NoResult

\* C11, amended: every call without explicitVersion whose executable is
\* located at a path whose basename does not match the canonical shape makes
\* the recursive call for "node" and has its outcome before it completes.
C11_SecondLookup ==
  /\ \A ci \in FrameIds :
       LET f == Frame(ci)
       IN  (f.pc = "done" /\ f.location # <<>> /\ f.explicitVersion = <<>>
              /\ basename(platform, f.location) \notin CanonicalNames)
             => f.inner # NoResult
  /\ \A c \in Callers :
       \A i \in 1 .. Len(stack[c]) - 1 :
         /\ stack[c][i].pc = "awaitInner"
         /\ stack[c][i + 1].executable = <<"n", "o", "d", "e">>
         /\ stack[c][i + 1].env = stack[c][i].env

C11_Witness ==
  \E c \in Callers :
    /\ Len(stack[c]) = 1
    /\ Top(c).pc = "done"
    /\ Top(c).executable = npm
    /\ Top(c).explicitVersion = <<>>
    /\ Top(c).inner.kind = "err"
    /\ Top(c).result.kind = "err"

\* C12 as stated: for every descriptor, canUseSpacesInRequirePath is true
\* exactly when majorVersion is absent or majorVersion >= 12, for every
\* non-negative integer majorVersion.
C12_Capability ==
  canUse # <<>> =>
    (canUse[1] <=> (binary.majorVersion = <<>> \/ binary.majorVersion[1] >= 12))

\* callers c and d have both probed the same canonical location, after both
\* passed the cache check, and both were accepted
BothProbed(c, d) ==
  /\ c # d
  /\ Len(stack[c]) = 1 /\ Len(stack[d]) = 1
  /\ Top(c).pc = "done" /\ Top(d).pc = "done"
  /\ Top(c).location = Top(d).location
  /\ basename(platform, Top(c).location) \in CanonicalNames
  /\ Top(c).probes = 1 /\ Top(d).probes = 1
  /\ Top(c).result.kind = "ok" /\ Top(d).result.kind = "ok"

\* the two probes printed the same major version
SameAnswer(c, d) ==
  \E N \in MajorRange :
    /\ StatesMajor(Top(c).outcome.stdout, N)
    /\ StatesMajor(Top(d).outcome.stdout, N)

\* C13 as stated: two interleaved calls for the same path both probe and both
\* insert, and the results and the cache entry are the same whatever the
\* interleaving, also when the two probes answer differently.
C13_Original ==
  \A c, d \in Callers :
    BothProbed(c, d) =>
      /\ Top(c).result = Top(d).result
      /\ cache[Top(c).location] = Top(c).result

\* C13, amended: two interleaved calls for the same path both probe and both
\* insert: every accepted probe writes its descriptor under the location and
\* touches no other key.  When the two probes print the same major version
\* the second insertion leaves the cache as it is and both callers get
\* the same path and majorVersion.
C13_Step ==
  /\ \A c \in Callers :
       (stack[c] # <<>> /\ stack'[c] # stack[c] /\ Top(c).pc = "probing"
          /\ Top(c)'.result.kind = "ok")
         => /\ DOMAIN cache' = DOMAIN cache \cup {Top(c).location}
            /\ cache'[Top(c).location] = Top(c)'.result
            /\ \A K \in DOMAIN cache :
                 K # Top(c).location => cache'[K] = cache[K]
            /\ (Top(c).location \in DOMAIN cache
                  /\ cache[Top(c).location].majorVersion
                       = Top(c)'.result.majorVersion)
                 => cache' = cache
  /\ \A c, d \in Callers :
       (BothProbed(c, d) /\ SameAnswer(c, d)) => Top(c).result = Top(d).result

C13_DuplicateResolution == [][C13_Step]_vars

C13_Witness ==
  \E c, d \in Callers :
    /\ BothProbed(c, d)
    /\ SameAnswer(c, d)
    /\ Top(c).result.majorVersion = <<14>>

\* C14: every cache entry maps its key K to a descriptor with path K and an
\* integer majorVersion >= 8 that a successful probe of K gave, and the
\* basename of K has the canonical shape; so no descriptor built from an
\* explicit version or by the shim fallback is an entry.
C14_CacheContent ==
  \A K \in DOMAIN cache :
    /\ cache[K].kind = "ok"
    /\ cache[K].path = K
    /\ cache[K].majorVersion # <<>>
    /\ cache[K].majorVersion[1] \in Nat
    /\ cache[K].majorVersion[1] >= 8
    /\ K \in good
    /\ basename(platform, K) \in CanonicalNames

\* a caller holds a descriptor built from an explicit version for a location
\* whose cache entry is the probed one
C14_Witness ==
  \E c \in Callers :
    /\ stack[c] # <<>>
    /\ Top(c).pc = "done"
    /\ Top(c).result = [kind |-> "ok", path |-> binNode, majorVersion |-> <<6>>]
    /\ binNode \in DOMAIN cache
    /\ cache[binNode].majorVersion = <<8>>

\* C15: a call whose located path fails the shape check never probes that
\* location and never stores it; every location that is probed or stored has
\* a basename of the canonical shape.
C15_ShimTerminal ==
  /\ \A ci \in FrameIds :
       LET f == Frame(ci)
           canonical == basename(platform, f.location) \in CanonicalNames
       IN  /\ (f.location # <<>> /\ ~canonical)
                => /\ f.pc # "probing"
                   /\ f.outcome = NoOutcome
                   /\ f.location \notin DOMAIN cache
           /\ (f.pc = "probing" \/ f.outcome # NoOutcome) => canonical
  /\ \A K \in good \cup failed \cup DOMAIN cache :
       basename(platform, K) \in CanonicalNames

C15_Witness ==
  \E ci \in FrameIds :
    /\ Frame(ci).pc = "done"
    /\ Frame(ci).location = binNpm
    /\ Frame(ci).probes = 1
    /\ Frame(ci).outcome = NoOutcome
    /\ Frame(ci).inner.kind = "ok"
    /\ DOMAIN cache = {binNode}

\* C16: a returned descriptor has no majorVersion only if an explicit version
\* was supplied or the shim fallback accepted the path after the recursive
\* call failed; a call without explicitVersion for a location of the
\* canonical shape returns a majorVersion >= 8.
C16_AbsentMajorVersion ==
  \A ci \in FrameIds :
    LET f == Frame(ci)
        canonical == basename(platform, f.location) \in CanonicalNames
    IN  (f.pc = "done" /\ f.result.kind = "ok")
          => /\ f.result.majorVersion = <<>>
                  => \/ f.explicitVersion # <<>>
                     \/ ~canonical /\ f.inner.kind = "err"
             /\ (f.explicitVersion = <<>> /\ canonical)
                  => /\ f.result.majorVersion # <<>>
                     /\ f.result.majorVersion[1] >= 8

C16_Witness ==
  \E ci \in FrameIds :
    /\ Frame(ci).pc = "done"
    /\ Frame(ci).explicitVersion = <<>>
    /\ Frame(ci).result = [kind |-> "ok", path |-> binNpm, majorVersion |-> <<>>]

\* C17 as stated: every failing call fails with BinaryNotFound or with
\* BinaryOutOfDate.
C17_ClosedTaxonomy ==
  \A ci \in FrameIds :
    (Frame(ci).pc = "done" /\ Frame(ci).result.kind = "err")
      => Frame(ci).result.id \in {"CannotFindNodeBinary", "NodeBinaryOutOfDate"}

\* C18: a call that ends in an error leaves the cache as it was when the call
\* began, and no step removes a key from the cache.
C18_Step ==
  /\ \A K \in DOMAIN cache : K \in DOMAIN cache'
  /\ \A c \in Callers :
       (Len(stack'[c]) = 1 /\ Top(c)'.pc = "done" /\ Top(c)'.result.kind = "err")
         => cache' = snapshot'[c]

C18_FailureKeepsCache == [][C18_Step]_vars

C18_Witness ==
  \E c \in Callers :
    /\ Len(stack[c]) = 1
    /\ Top(c).pc = "done"
    /\ Top(c).inner.kind = "err"
    /\ Top(c).result.kind = "err"
    /\ Top(c).result.id = "NodeBinaryOutOfDate"
    /\ cache = snapshot[c]
    /\ cache # <<>>

\* C19: the descriptor a caller gets has the path that step 1 computed for
\* the requested name: the name itself when it is absolute, else what the
\* path search found.
C19_PathFidelity ==
  \A c \in Callers :
    (stack[c] # <<>> /\ stack[c][1].pc = "done" /\ stack[c][1].result.kind = "ok")
      => stack[c][1].result.path =
           IF isAbsolute(platform, stack[c][1].executable)
             THEN stack[c][1].executable
             ELSE findInPath(stack[c][1].executable, stack[c][1].env)

\* a cache hit for a name that the path search resolved
C19_Witness ==
  \E c \in Callers :
    /\ Len(stack[c]) = 1
    /\ Top(c).pc = "done"
    /\ Top(c).executable = node
    /\ Top(c).probes = 0
    /\ Top(c).explicitVersion = <<>>
    /\ Top(c).result.kind = "ok"
    /\ Top(c).result.path = binNode

====
